---------------------------- MODULE Spec2Model ----------------------------
(***************************************************************************)
(* Client configuration lifecycle engine of gasoline-mcp (PyPI package):   *)
(* config.py (registry, path resolution, read / write / merge),            *)
(* install.py (execute_install), uninstall.py (execute_uninstall) and      *)
(* doctor.py (run_diagnostics), over a small file system.                  *)
(***************************************************************************)
EXTENDS Integers, Sequences, FiniteSets, TLC

VARIABLES
    sysPlatform,   \* sys.platform of the host
    fs,            \* the file system: path -> file
    dirs,          \* the directories that exist (detect directories)
    unwritable,    \* config paths whose directory refuses writes (OSError)
    cliOnPath,     \* whether the `claude` executable is on PATH
    pc,            \* "idle" | "install" | "uninstall" | "doctor" | "done" | "raised"
    op,            \* the operation that runs or has just ended
    options,       \* the options dict of the running operation
    clients,       \* the client list the running uninstall iterates
    idx,           \* position of the running loop (1-based)
    found_existing,\* execute_install's found_existing
    result,        \* the result dict being built
    raised,        \* the exception that escaped the operation ("none" if none)
    calls,         \* the file-system and process primitives the operation called
    fs0,           \* the file system when the running operation started
    dirs0,         \* the directories when the running operation started
    writing,       \* the call of write_config_file in progress: path, data, dry_run
    prev,          \* summary of the previous operation
    fsPrev,        \* the file system when the previous operation started
    budget         \* operations that may still be started

vars == <<sysPlatform, fs, dirs, unwritable, cliOnPath, pc, op, options, clients,
          idx, found_existing, result, raised, calls, fs0, dirs0, writing, prev, fsPrev, budget>>

-----------------------------------------------------------------------------
(* Bounds of the model *)

\* number of sibling (non-gasoline) server entries a document may hold
MaxOthers == 1

\* operations run one after the other in a behaviour of SpecSeq
MaxOps == 2

-----------------------------------------------------------------------------
(* JSON values, with Python's dict semantics (insertion-ordered) *)

JNull == [t |-> "null"]
JStr(s) == [t |-> "str", s |-> s]
JList == [t |-> "list"]                      \* the empty list []
JDict(items) == [t |-> "dict", items |-> items]
Item(k, v) == [k |-> k, v |-> v]

IsDict(v) == v.t = "dict"

DictKeys(d) == {d.items[i].k : i \in DOMAIN d.items}

\* k in d
DictHas(d, k) == k \in DictKeys(d)

\* d[k]
DictGet(d, k) == d.items[CHOOSE i \in DOMAIN d.items : d.items[i].k = k].v

\* d[k] = v : an existing key keeps its position, a new key goes last
DictSet(d, k, v) ==
    IF DictHas(d, k)
    THEN JDict([i \in DOMAIN d.items |->
                  IF d.items[i].k = k THEN Item(k, v) ELSE d.items[i]])
    ELSE JDict(Append(d.items, Item(k, v)))

\* del d[k]
DictDel(d, k) == JDict(SelectSeq(d.items, LAMBDA it : it.k # k))

\* bool(v)
Truthy(v) ==
    CASE v.t = "null" -> FALSE
      [] v.t = "str"  -> v.s # ""
      [] v.t = "list" -> FALSE
      [] v.t = "dict" -> v.items # <<>>

\* a == b in Python: dicts compare regardless of key order
RECURSIVE PyEq(_, _)
PyEq(a, b) ==
    IF a.t = "dict" /\ b.t = "dict"
    THEN /\ DictKeys(a) = DictKeys(b)
         /\ \A k \in DictKeys(a) : PyEq(DictGet(a, k), DictGet(b, k))
    ELSE a = b

\* number of JSON nodes of a value: stands for the length of its serialization
RECURSIVE DumpSize(_)
DumpSize(v) ==
    IF v.t = "dict" /\ v.items # <<>>
    THEN 1 + DumpSize(v.items[1].v) + DumpSize(JDict(Tail(v.items)))
    ELSE 1

-----------------------------------------------------------------------------
(* Files *)

None == "None"

Absent == [kind |-> "absent", fmt |-> "", val |-> JNull, size |-> 0]

\* UTF-8 text that parses as JSON value val, laid out as fmt
JsonFile(val, fmt, size) == [kind |-> "json", fmt |-> fmt, val |-> val, size |-> size]

\* UTF-8 text that is not JSON
GarbageFile == [kind |-> "garbage", fmt |-> "", val |-> JNull, size |-> 1]

\* the beginning of a JSON text: what a file opened for writing holds until
\* json.dump and the trailing newline are through
PartialFile == [kind |-> "partial", fmt |-> "", val |-> JNull, size |-> 0]

\* bytes that are not UTF-8
BinaryFile == [kind |-> "binary", fmt |-> "", val |-> JNull, size |-> 1]

Dest(p) == <<p, "">>
Temp(p) == <<p, ".tmp">>

Exists(f, p) == f[Dest(p)].kind # "absent"

-----------------------------------------------------------------------------
(* config.py: client registry and path resolution *)

CLIENT_DEFINITIONS ==
    << [id |-> "claude-code", name |-> "Claude Code", type |-> "cli",
        detectCommand |-> "claude", configPath |-> <<>>, detectDir |-> <<>>],
       [id |-> "claude-desktop", name |-> "Claude Desktop", type |-> "file",
        detectCommand |-> None,
        configPath |-> [darwin |-> "~/Library/Application Support/Claude/claude_desktop_config.json",
                        win32 |-> "%APPDATA%/Claude/claude_desktop_config.json"],
        detectDir |-> [darwin |-> "~/Library/Application Support/Claude",
                       win32 |-> "%APPDATA%/Claude"]],
       [id |-> "cursor", name |-> "Cursor", type |-> "file",
        detectCommand |-> None,
        configPath |-> [all |-> "~/.cursor/mcp.json"],
        detectDir |-> [all |-> "~/.cursor"]],
       [id |-> "windsurf", name |-> "Windsurf", type |-> "file",
        detectCommand |-> None,
        configPath |-> [all |-> "~/.codeium/windsurf/mcp_config.json"],
        detectDir |-> [all |-> "~/.codeium/windsurf"]],
       [id |-> "vscode", name |-> "VS Code", type |-> "file",
        detectCommand |-> None,
        configPath |-> [darwin |-> "~/Library/Application Support/Code/User/mcp.json",
                        win32 |-> "%APPDATA%/Code/User/mcp.json",
                        linux |-> "~/.config/Code/User/mcp.json"],
        detectDir |-> [darwin |-> "~/Library/Application Support/Code",
                       win32 |-> "%APPDATA%/Code",
                       linux |-> "~/.config/Code"]] >>

LEGACY_PATHS == << "~/.codeium/mcp.json", "~/.vscode/claude.mcp.json", "~/.claude.json" >>

PlatformKeys == {"darwin", "linux", "win32"}

\* sys.platform values that start with "linux"
LinuxLike == {"linux", "linux2"}

get_platform ==
    IF sysPlatform = "darwin" THEN "darwin"
    ELSE IF sysPlatform \in LinuxLike THEN "linux"
    ELSE IF sysPlatform = "win32" THEN "win32"
    ELSE sysPlatform

\* os.path.expanduser and os.path.normpath of the templates of the registry:
\* "~" becomes the home directory
ExpandUser(p) ==
    CASE p = "~/Library/Application Support/Claude/claude_desktop_config.json"
             -> "/home/u/Library/Application Support/Claude/claude_desktop_config.json"
      [] p = "~/Library/Application Support/Claude"
             -> "/home/u/Library/Application Support/Claude"
      [] p = "~/.cursor/mcp.json" -> "/home/u/.cursor/mcp.json"
      [] p = "~/.cursor" -> "/home/u/.cursor"
      [] p = "~/.codeium/windsurf/mcp_config.json" -> "/home/u/.codeium/windsurf/mcp_config.json"
      [] p = "~/.codeium/windsurf" -> "/home/u/.codeium/windsurf"
      [] p = "~/Library/Application Support/Code/User/mcp.json"
             -> "/home/u/Library/Application Support/Code/User/mcp.json"
      [] p = "~/Library/Application Support/Code" -> "/home/u/Library/Application Support/Code"
      [] p = "~/.config/Code/User/mcp.json" -> "/home/u/.config/Code/User/mcp.json"
      [] p = "~/.config/Code" -> "/home/u/.config/Code"
      [] p = "~/.codeium/mcp.json" -> "/home/u/.codeium/mcp.json"
      [] p = "~/.vscode/claude.mcp.json" -> "/home/u/.vscode/claude.mcp.json"
      [] p = "~/.claude.json" -> "/home/u/.claude.json"
      [] OTHER -> p

\* expanded.replace("%APPDATA%", os.environ["APPDATA"])
ReplaceAppData(p) ==
    CASE p = "%APPDATA%/Claude/claude_desktop_config.json"
             -> "C:/Users/u/AppData/Roaming/Claude/claude_desktop_config.json"
      [] p = "%APPDATA%/Claude" -> "C:/Users/u/AppData/Roaming/Claude"
      [] p = "%APPDATA%/Code/User/mcp.json" -> "C:/Users/u/AppData/Roaming/Code/User/mcp.json"
      [] p = "%APPDATA%/Code" -> "C:/Users/u/AppData/Roaming/Code"
      [] OTHER -> p

expand_path(p) ==
    IF p = None THEN p
    ELSE IF sysPlatform = "win32" THEN ReplaceAppData(ExpandUser(p))
    ELSE ExpandUser(p)

\* m.get(k), None when k is no key of m
MapGet(m, k) == IF k \in DOMAIN m THEN m[k] ELSE None

\* a or b
Or(a, b) == IF a # None THEN a ELSE b

\* get_client_config_path looking at the platform key only
get_client_config_path_without_wildcard(definition, platform) ==
    IF definition.type = "cli" THEN None
    ELSE LET plat == Or(platform, get_platform)
             raw  == MapGet(definition.configPath, plat)
         IN  IF raw # None THEN expand_path(raw) ELSE None

get_client_config_path(definition, platform) ==
    IF definition.type = "cli" THEN None
    ELSE LET plat == Or(platform, get_platform)
             raw  == Or(MapGet(definition.configPath, plat), MapGet(definition.configPath, "all"))
         IN  IF raw # None THEN expand_path(raw) ELSE None

get_client_detect_dir(definition, platform) ==
    IF definition.type = "cli" THEN None
    ELSE LET plat == Or(platform, get_platform)
             raw  == Or(MapGet(definition.detectDir, plat), MapGet(definition.detectDir, "all"))
         IN  IF raw # None THEN expand_path(raw) ELSE None

is_client_installed(definition) ==
    IF definition.type = "cli" THEN cliOnPath
    ELSE LET detect_dir == get_client_detect_dir(definition, None)
         IN  IF detect_dir = None THEN FALSE ELSE detect_dir \in dirs

get_detected_clients == SelectSeq(CLIENT_DEFINITIONS, is_client_installed)

IsFileClientWithPath(d) == d.type = "file" /\ get_client_config_path(d, None) # None

get_config_candidates ==
    LET ds == SelectSeq(CLIENT_DEFINITIONS, IsFileClientWithPath)
    IN  [i \in DOMAIN ds |-> get_client_config_path(ds[i], None)]

get_tool_name_from_path(path) ==
    LET hits == {i \in DOMAIN CLIENT_DEFINITIONS :
                    /\ CLIENT_DEFINITIONS[i].type = "file"
                    /\ get_client_config_path(CLIENT_DEFINITIONS[i], None) = path}
    IN  IF hits # {}
        THEN CLIENT_DEFINITIONS[CHOOSE i \in hits : \A j \in hits : i <= j].name
        ELSE "Unknown"

\* the directories os.makedirs(os.path.dirname(path)) brings into existence
\* that the registry knows: the detect directory of the client owning path
ParentDirs(path) ==
    {get_client_detect_dir(CLIENT_DEFINITIONS[i], None) :
        i \in {j \in DOMAIN CLIENT_DEFINITIONS :
                 /\ CLIENT_DEFINITIONS[j].type = "file"
                 /\ get_client_config_path(CLIENT_DEFINITIONS[j], None) = path}}

\* config and legacy paths of the host
HostConfigPaths == {get_config_candidates[i] : i \in DOMAIN get_config_candidates}
HostLegacyPaths == {expand_path(LEGACY_PATHS[i]) : i \in DOMAIN LEGACY_PATHS}
HostPaths == HostConfigPaths \cup HostLegacyPaths
FsDomain == {Dest(p) : p \in HostPaths} \cup {Temp(p) : p \in HostPaths}

-----------------------------------------------------------------------------
(* Exceptions.  GasolineError and its subclasses derive from Exception, so  *)
(* `except (OSError, ValueError, KeyError)` does not catch them;            *)
(* UnicodeDecodeError is a ValueError, PermissionError an OSError.          *)

NoExc == "none"

\* isinstance(exc, (OSError, ValueError, KeyError))
CaughtByHandler(exc) ==
    exc \in {"OSError", "PermissionError", "ValueError", "UnicodeDecodeError", "KeyError"}

-----------------------------------------------------------------------------
(* The world an operation acts on: files, directories and the primitives    *)
(* called so far                                                            *)

World(f, d, c) == [fs |-> f, dirs |-> d, calls |-> c]

Call(w, fn, path, by) ==
    [w EXCEPT !.calls = Append(@, [fn |-> fn, path |-> path, by |-> by, ret |-> None])]

\* the last primitive called ends as `ret` says (an exit status, an exception)
Returns(w, ret) == [w EXCEPT !.calls[Len(w.calls)].ret = ret]

\* size ceiling of read_config_file
MAX_CONFIG_SIZE == 1048576

-----------------------------------------------------------------------------
(* config.py: read_config_file *)

\* read_config_file refusing a file of exactly the ceiling too
read_config_file_size_from_ceiling(f, path) ==
    LET file == f[Dest(path)]
    IN  IF file.kind = "absent"
        THEN [exc |-> NoExc, valid |-> FALSE, data |-> JNull]
        ELSE IF file.size >= MAX_CONFIG_SIZE
        THEN [exc |-> "FileSizeError", valid |-> FALSE, data |-> JNull]
        ELSE IF file.kind = "binary"
        THEN [exc |-> "UnicodeDecodeError", valid |-> FALSE, data |-> JNull]
        ELSE IF file.kind \in {"garbage", "partial"}
        THEN [exc |-> "InvalidJSONError", valid |-> FALSE, data |-> JNull]
        ELSE [exc |-> NoExc, valid |-> TRUE, data |-> file.val]

read_config_file(f, path) ==
    LET file == f[Dest(path)]
    IN  IF file.kind = "absent"
        THEN [exc |-> NoExc, valid |-> FALSE, data |-> JNull]
        ELSE IF file.size > MAX_CONFIG_SIZE
        THEN [exc |-> "FileSizeError", valid |-> FALSE, data |-> JNull]
        ELSE IF file.kind = "binary"
        THEN [exc |-> "UnicodeDecodeError", valid |-> FALSE, data |-> JNull]
        ELSE IF file.kind \in {"garbage", "partial"}
        THEN [exc |-> "InvalidJSONError", valid |-> FALSE, data |-> JNull]
        ELSE [exc |-> NoExc, valid |-> TRUE, data |-> file.val]

-----------------------------------------------------------------------------
(* config.py: write_config_file, step by step *)

\* json.dump(data, f, indent=2); f.write("\n")
JsonDump(data) == JsonFile(data, "indent2", DumpSize(data))

\* os.makedirs(os.path.dirname(path), exist_ok=True)
MakeDirs(w, path) ==
    [Call(w, "os.makedirs", Dest(path), "write_config_file") EXCEPT !.dirs = @ \cup ParentDirs(path)]

\* with open(temp_path, "w") as f: json.dump(...)
WriteTemp(w, path, data) ==
    [Call(w, "open_w", Temp(path), "write_config_file") EXCEPT !.fs[Temp(path)] = JsonDump(data)]

\* if os.path.exists(path): os.remove(path)
RemoveDest(w, path) ==
    IF Exists(w.fs, path)
    THEN [Call(w, "os.remove", Dest(path), "write_config_file") EXCEPT !.fs[Dest(path)] = Absent]
    ELSE w

\* os.rename(temp_path, path)
Rename(w, path) ==
    [Call(w, "os.rename", Dest(path), "write_config_file") EXCEPT
        !.fs[Dest(path)] = w.fs[Temp(path)], !.fs[Temp(path)] = Absent]

\* write_config_file without its dry-run early return
write_config_file_no_dry_run(w, path, data, dry_run) ==
    IF path \in unwritable
    THEN [exc |-> "GasolineError", w |-> w, before |-> FALSE]
    ELSE [exc |-> NoExc, before |-> dry_run,
          w |-> Rename(RemoveDest(WriteTemp(MakeDirs(w, path), path, data), path), path)]

write_config_file(w, path, data, dry_run) ==
    IF dry_run
    THEN [exc |-> NoExc, w |-> w, before |-> TRUE]
    ELSE IF path \in unwritable
    THEN [exc |-> "GasolineError", w |-> w, before |-> FALSE]
    ELSE [exc |-> NoExc, before |-> FALSE,
          w |-> Rename(RemoveDest(WriteTemp(MakeDirs(w, path), path, data), path), path)]

\* validate_mcp_config without the required-field check
validate_mcp_config_servers_optional(data) ==
    IF ~IsDict(data) THEN <<"Config must be an object">>
    ELSE IF DictHas(data, "mcpServers") /\ ~IsDict(DictGet(data, "mcpServers"))
         THEN <<"mcpServers must be an object">>
    ELSE <<>>

\* validate_mcp_config(data): the list of validation errors
validate_mcp_config(data) ==
    IF ~IsDict(data) THEN <<"Config must be an object">>
    ELSE IF ~DictHas(data, "mcpServers") THEN <<"Missing required field: mcpServers">>
    ELSE IF ~IsDict(DictGet(data, "mcpServers")) THEN <<"mcpServers must be an object">>
    ELSE <<>>

-----------------------------------------------------------------------------
(* config.py: merge_gasoline_config *)

GASOLINE == "gasoline"
MCP_SERVERS == "mcpServers"

\* existing.get("mcpServers", {})
ServersOrEmpty(existing) ==
    IF DictHas(existing, MCP_SERVERS) THEN DictGet(existing, MCP_SERVERS) ELSE JDict(<<>>)

\* the entry of gasoline_entry and env_vars laid over an entry already there, key by
\* key (dict.update), instead of replacing it
UpdatedEntry(old, gasoline_entry, env_vars) ==
    LET a == DictSet(old, "command", DictGet(gasoline_entry, "command"))
        b == DictSet(a, "args", DictGet(gasoline_entry, "args"))
    IN  IF Truthy(env_vars) THEN DictSet(b, "env", env_vars) ELSE b

\* merge_gasoline_config updating an existing gasoline entry in place
merge_gasoline_config_updating_entry(existing, gasoline_entry, env_vars) ==
    IF ~IsDict(existing)
    THEN [exc |-> "TypeError", val |-> JNull]
    ELSE LET merged == IF ~DictHas(existing, MCP_SERVERS)
                       THEN DictSet(existing, MCP_SERVERS, JDict(<<>>))
                       ELSE existing
             servers == DictGet(merged, MCP_SERVERS)
         IN  IF ~IsDict(servers)
             THEN [exc |-> "TypeError", val |-> JNull]
             ELSE [exc |-> NoExc,
                   val |-> DictSet(merged, MCP_SERVERS,
                              DictSet(servers, GASOLINE,
                                  UpdatedEntry(IF DictHas(servers, GASOLINE)
                                                  /\ IsDict(DictGet(servers, GASOLINE))
                                               THEN DictGet(servers, GASOLINE)
                                               ELSE JDict(<<>>),
                                               gasoline_entry, env_vars)))]

\* merge_gasoline_config adding the entry without looking for one already there
merge_gasoline_config_appending(existing, gasoline_entry, env_vars) ==
    IF ~IsDict(existing)
    THEN [exc |-> "TypeError", val |-> JNull]
    ELSE LET merged == IF ~DictHas(existing, MCP_SERVERS)
                       THEN DictSet(existing, MCP_SERVERS, JDict(<<>>))
                       ELSE existing
             servers == DictGet(merged, MCP_SERVERS)
             entry   == IF Truthy(env_vars)
                        THEN DictSet(gasoline_entry, "env", env_vars)
                        ELSE gasoline_entry
         IN  IF ~IsDict(servers)
             THEN [exc |-> "TypeError", val |-> JNull]
             ELSE [exc |-> NoExc,
                   val |-> DictSet(merged, MCP_SERVERS,
                                   JDict(Append(servers.items, Item(GASOLINE, entry))))]

\* merge_gasoline_config building a new document that keeps mcpServers alone
merge_gasoline_config_servers_only(existing, gasoline_entry, env_vars) ==
    IF ~IsDict(existing)
    THEN [exc |-> "TypeError", val |-> JNull]
    ELSE LET servers == ServersOrEmpty(existing)
             entry   == IF Truthy(env_vars)
                        THEN DictSet(gasoline_entry, "env", env_vars)
                        ELSE gasoline_entry
         IN  IF ~IsDict(servers)
             THEN [exc |-> "TypeError", val |-> JNull]
             ELSE [exc |-> NoExc,
                   val |-> JDict(<<Item(MCP_SERVERS, DictSet(servers, GASOLINE, entry))>>)]

\* merge_gasoline_config assigning a fresh mcpServers that holds the entry alone
merge_gasoline_config_fresh_servers(existing, gasoline_entry, env_vars) ==
    IF ~IsDict(existing)
    THEN [exc |-> "TypeError", val |-> JNull]
    ELSE LET entry == IF Truthy(env_vars)
                      THEN DictSet(gasoline_entry, "env", env_vars)
                      ELSE gasoline_entry
         IN  IF DictHas(existing, MCP_SERVERS) /\ ~IsDict(DictGet(existing, MCP_SERVERS))
             THEN [exc |-> "TypeError", val |-> JNull]
             ELSE [exc |-> NoExc,
                   val |-> DictSet(existing, MCP_SERVERS, JDict(<<Item(GASOLINE, entry)>>))]

merge_gasoline_config(existing, gasoline_entry, env_vars) ==
    IF ~IsDict(existing)
    THEN [exc |-> "TypeError", val |-> JNull]
    ELSE LET merged == IF ~DictHas(existing, MCP_SERVERS)
                       THEN DictSet(existing, MCP_SERVERS, JDict(<<>>))
                       ELSE existing
             servers == DictGet(merged, MCP_SERVERS)
             entry   == IF Truthy(env_vars)
                        THEN DictSet(gasoline_entry, "env", env_vars)
                        ELSE gasoline_entry
         IN  IF ~IsDict(servers)
             THEN [exc |-> "TypeError", val |-> JNull]
             ELSE [exc |-> NoExc,
                   val |-> DictSet(merged, MCP_SERVERS, DictSet(servers, GASOLINE, entry))]

-----------------------------------------------------------------------------
(* install.py *)

\* gasoline_entry of execute_install
GasolineEntry == JDict(<<Item("command", JStr("gasoline-mcp")), Item("args", JList)>>)

generate_default_config ==
    JDict(<<Item(MCP_SERVERS, JDict(<<Item(GASOLINE, GasolineEntry)>>))>>)

NoUpdate == [name |-> None, path |-> None, isNew |-> FALSE]

\* an exception leaves _install_candidate
InstallRaised(e, w) ==
    [exc |-> e, w |-> w, update |-> NoUpdate, diff |-> FALSE, is_existing |-> FALSE]

\* _install_candidate, from the result of write_config_file on
InstallWritten(candidate_path, dry_run, is_new, write_result) ==
    IF write_result.exc # NoExc THEN InstallRaised(write_result.exc, write_result.w)
    ELSE [exc |-> NoExc, w |-> write_result.w,
          update |-> [name |-> get_tool_name_from_path(candidate_path),
                      path |-> candidate_path, isNew |-> is_new],
          diff |-> dry_run /\ write_result.before,
          is_existing |-> ~is_new]

\* _install_candidate writing the merged document to the path itself
InstallMerged_writing_in_place(w, candidate_path, dry_run, is_new, merged) ==
    IF merged.exc # NoExc THEN InstallRaised(merged.exc, w)
    ELSE InstallWritten(candidate_path, dry_run, is_new,
             [exc |-> NoExc, before |-> dry_run,
              w |-> IF dry_run THEN w
                    ELSE [Call(w, "open_w", Dest(candidate_path), "_install_candidate")
                             EXCEPT !.fs[Dest(candidate_path)] = JsonDump(merged.val)]])

\* _install_candidate, from the merged document on
InstallMerged(w, candidate_path, dry_run, is_new, merged) ==
    IF merged.exc # NoExc THEN InstallRaised(merged.exc, w)
    ELSE InstallWritten(candidate_path, dry_run, is_new,
             write_config_file(Call(w, "write_config_file", Dest(candidate_path), "_install_candidate"),
                               candidate_path, merged.val, dry_run))

\* _install_candidate, from the result of read_config_file on
InstallRead(w, candidate_path, gasoline_entry, env_vars, dry_run, read_result) ==
    IF read_result.exc # NoExc THEN InstallRaised(read_result.exc, w)
    ELSE InstallMerged(w, candidate_path, dry_run, ~read_result.valid,
             merge_gasoline_config(
                 IF read_result.valid THEN read_result.data ELSE generate_default_config,
                 gasoline_entry, env_vars))

install_candidate(w, candidate_path, gasoline_entry, env_vars, dry_run) ==
    InstallRead(w, candidate_path, gasoline_entry, env_vars, dry_run,
                read_config_file(w.fs, candidate_path))

\* stands for the None that handle_install_error returns to skip silently
NoError == [name |-> None, message |-> None]

\* the error entry, or None (skip silently)
handle_install_error(f, candidate_path, err, for_all) ==
    IF ~Exists(f, candidate_path) /\ ~for_all
    THEN NoError
    ELSE [name |-> get_tool_name_from_path(candidate_path), message |-> err]

\* _process_candidate's except clause, from the error entry on
ProcessError(w, res, for_all, error_entry) ==
    IF error_entry # NoError
    THEN [exc |-> NoExc, w |-> w, result |-> [res EXCEPT !.errors = Append(@, error_entry)],
          is_existing |-> FALSE, should_stop |-> ~for_all]
    ELSE [exc |-> NoExc, w |-> w, result |-> res, is_existing |-> FALSE, should_stop |-> FALSE]

\* _process_candidate never asking the loop to stop after an update
ProcessOutcome_never_stopping(res, candidate_path, for_all, r) ==
    IF r.exc = NoExc
    THEN [exc |-> NoExc, w |-> r.w,
          result |-> [res EXCEPT !.updated = Append(@, r.update),
                                 !.diffs = IF r.diff THEN Append(@, candidate_path) ELSE @],
          is_existing |-> r.is_existing,
          should_stop |-> FALSE]
    ELSE IF CaughtByHandler(r.exc)
    THEN ProcessError(r.w, res, for_all,
                      handle_install_error(r.w.fs, candidate_path, r.exc, for_all))
    ELSE [exc |-> r.exc, w |-> r.w, result |-> res,
          is_existing |-> FALSE, should_stop |-> FALSE]

\* _process_candidate, from the outcome r of _install_candidate on
ProcessOutcome(res, candidate_path, for_all, r) ==
    IF r.exc = NoExc
    THEN [exc |-> NoExc, w |-> r.w,
          result |-> [res EXCEPT !.updated = Append(@, r.update),
                                 !.diffs = IF r.diff THEN Append(@, candidate_path) ELSE @],
          is_existing |-> r.is_existing,
          should_stop |-> ~for_all /\ r.is_existing]
    ELSE IF CaughtByHandler(r.exc)
    THEN ProcessError(r.w, res, for_all,
                      handle_install_error(r.w.fs, candidate_path, r.exc, for_all))
    ELSE [exc |-> r.exc, w |-> r.w, result |-> res,
          is_existing |-> FALSE, should_stop |-> FALSE]

process_candidate(w, res, candidate_path, gasoline_entry, env_vars, dry_run, for_all) ==
    ProcessOutcome(res, candidate_path, for_all,
                   install_candidate(w, candidate_path, gasoline_entry, env_vars, dry_run))

\* _install_default_candidate, from the result of write_config_file on
DefaultWritten(default_path, write_result) ==
    IF write_result.exc # NoExc
    THEN [exc |-> write_result.exc, w |-> write_result.w, update |-> NoUpdate]
    ELSE [exc |-> NoExc, w |-> write_result.w,
          update |-> [name |-> get_tool_name_from_path(default_path),
                      path |-> default_path, isNew |-> TRUE]]

install_default_candidate(w, candidates, gasoline_entry, env_vars, dry_run) ==
    IF candidates = <<>>
    THEN [exc |-> "IndexError", w |-> w, update |-> NoUpdate]
    ELSE DefaultWritten(candidates[1],
             write_config_file(
                 Call(w, "write_config_file", Dest(candidates[1]), "_install_default_candidate"),
                 candidates[1],
                 merge_gasoline_config(generate_default_config, gasoline_entry, env_vars).val,
                 dry_run))

\* _apply_fallback, from the outcome r of _install_default_candidate on
FallbackOutcome(res, r) ==
    IF r.exc = NoExc
    THEN [exc |-> NoExc, w |-> r.w, result |-> [res EXCEPT !.updated = Append(@, r.update)]]
    ELSE IF CaughtByHandler(r.exc)
    THEN [exc |-> NoExc, w |-> r.w,
          result |-> [res EXCEPT !.errors =
                          Append(@, [name |-> "Claude Desktop", message |-> r.exc])]]
    ELSE [exc |-> r.exc, w |-> r.w, result |-> res]

apply_fallback(w, res, candidates, gasoline_entry, env_vars, dry_run) ==
    FallbackOutcome(res, install_default_candidate(w, candidates, gasoline_entry, env_vars, dry_run))

-----------------------------------------------------------------------------
(* uninstall.py *)

\* what subprocess.run of the client's removal command can do: exit 0, a
\* nonzero exit with "not found" or "does not exist" on stderr, another
\* nonzero exit, TimeoutExpired, or an OSError when the command cannot start
CliOutcomes == {"exit0", "not_found", "failed", "timeout", "launch_failed"}

UninstallResult(e, w, status, definition, method, path, message) ==
    [exc |-> e, w |-> w, status |-> status, name |-> definition.name, id |-> definition.id,
     method |-> method, path |-> path, message |-> message]

\* _uninstall_via_cli reporting a "not found" exit as an error like any other
CliRan_not_found_is_error(ran, definition, outcome) ==
    IF outcome = "exit0"
    THEN UninstallResult(NoExc, ran, "removed", definition, "cli", None, "Removed via CLI")
    ELSE UninstallResult(NoExc, ran, "error", definition, "cli", None, "CLI uninstall failed")

\* _uninstall_via_cli once subprocess.run has been called (world ran)
CliRan(ran, definition, outcome) ==
    IF outcome = "exit0"
    THEN UninstallResult(NoExc, ran, "removed", definition, "cli", None, "Removed via CLI")
    ELSE IF outcome = "not_found"
    THEN UninstallResult(NoExc, ran, "notConfigured", definition, "cli", None, None)
    ELSE UninstallResult(NoExc, ran, "error", definition, "cli", None, "CLI uninstall failed")

uninstall_via_cli(w, definition, dry_run, outcome) ==
    IF dry_run
    THEN UninstallResult(NoExc, w, "removed", definition, "cli", None, "Would run")
    ELSE CliRan(Returns(Call(w, "subprocess.run", Dest(definition.detectCommand),
                                 "_uninstall_via_cli"), outcome),
                definition, outcome)

\* d.get(key), where d is known to be a dict
GetOrNull(d, key) == IF DictHas(d, key) THEN DictGet(d, key) ELSE JNull

\* servers.get("gasoline"): AttributeError when servers is no dict
LookupIn(servers) ==
    IF ~IsDict(servers) THEN [exc |-> "AttributeError", val |-> JNull]
    ELSE [exc |-> NoExc, val |-> GetOrNull(servers, GASOLINE)]

\* read_result["data"].get("mcpServers", {}).get("gasoline"): the value looked up,
\* None (JNull) when a key is missing, AttributeError when .get is called on a non-dict
LookupGasoline(data) ==
    IF ~IsDict(data) THEN [exc |-> "AttributeError", val |-> JNull]
    ELSE LookupIn(IF DictHas(data, MCP_SERVERS) THEN DictGet(data, MCP_SERVERS) ELSE JDict(<<>>))

\* the removal keeping nothing of the document but its mcpServers
RemoveGasoline_servers_only(data) ==
    JDict(<<Item(MCP_SERVERS, DictDel(DictGet(data, MCP_SERVERS), GASOLINE))>>)

\* modified = json.loads(json.dumps(data)); del modified["mcpServers"]["gasoline"]
RemoveGasoline(data) ==
    DictSet(data, MCP_SERVERS, DictDel(DictGet(data, MCP_SERVERS), GASOLINE))

\* _uninstall_via_file, from the result of write_config_file on
UninstallWritten(definition, cfg_path, write_result) ==
    IF write_result.exc # NoExc
    THEN UninstallResult(write_result.exc, write_result.w, "raised", definition, None, cfg_path, None)
    ELSE UninstallResult(NoExc, write_result.w, "removed", definition, "file", cfg_path, None)

\* _uninstall_via_file writing the reduced document back even when mcpServers is empty
UninstallModified_always_writing(w, definition, cfg_path, modified) ==
    UninstallWritten(definition, cfg_path,
        write_config_file(Call(w, "write_config_file", Dest(cfg_path), "_uninstall_via_file"),
                          cfg_path, modified, FALSE))

\* _uninstall_via_file, from the reduced document on: write it back, or delete the file
UninstallModified(w, definition, cfg_path, modified) ==
    IF Truthy(DictGet(modified, MCP_SERVERS))
    THEN UninstallWritten(definition, cfg_path,
             write_config_file(Call(w, "write_config_file", Dest(cfg_path), "_uninstall_via_file"),
                               cfg_path, modified, FALSE))
    ELSE IF cfg_path \in unwritable
    THEN UninstallResult("PermissionError", w, "raised", definition, None, cfg_path, None)
    ELSE UninstallResult(NoExc,
             [Call(w, "os.remove", Dest(cfg_path), "_uninstall_via_file")
                 EXCEPT !.fs[Dest(cfg_path)] = Absent],
             "removed", definition, "file", cfg_path, None)

\* _uninstall_via_file handing the document it read, not the reduced copy, to the write
UninstallLooked_writing_original(w, definition, dry_run, cfg_path, data, looked) ==
    IF looked.exc # NoExc
    THEN UninstallResult(looked.exc, w, "raised", definition, None, cfg_path, None)
    ELSE IF ~Truthy(looked.val)
    THEN UninstallResult(NoExc, w, "notConfigured", definition, None, cfg_path, None)
    ELSE IF dry_run
    THEN UninstallResult(NoExc, w, "removed", definition, "file", cfg_path, None)
    ELSE UninstallModified(w, definition, cfg_path, data)

\* _uninstall_via_file, from the looked-up gasoline entry on
UninstallLooked(w, definition, dry_run, cfg_path, data, looked) ==
    IF looked.exc # NoExc
    THEN UninstallResult(looked.exc, w, "raised", definition, None, cfg_path, None)
    ELSE IF ~Truthy(looked.val)
    THEN UninstallResult(NoExc, w, "notConfigured", definition, None, cfg_path, None)
    ELSE IF dry_run
    THEN UninstallResult(NoExc, w, "removed", definition, "file", cfg_path, None)
    ELSE UninstallModified(w, definition, cfg_path, RemoveGasoline(data))

\* _uninstall_via_file, from the result of read_config_file on
UninstallRead(w, definition, dry_run, cfg_path, read_result) ==
    IF read_result.exc # NoExc
    THEN UninstallResult(read_result.exc, w, "raised", definition, None, cfg_path, None)
    ELSE IF ~read_result.valid
    THEN UninstallResult(NoExc, w, "error", definition, None, cfg_path,
                         "Invalid JSON, cannot uninstall")
    ELSE UninstallLooked(w, definition, dry_run, cfg_path, read_result.data,
                         LookupGasoline(read_result.data))

\* _uninstall_via_file, from the resolved config path on
UninstallAtPath(w, definition, dry_run, cfg_path) ==
    IF cfg_path = None
    THEN UninstallResult(NoExc, w, "notConfigured", definition, None, cfg_path, None)
    ELSE IF ~Exists(w.fs, cfg_path)
    THEN UninstallResult(NoExc, w, "notConfigured", definition, None, cfg_path, None)
    ELSE UninstallRead(w, definition, dry_run, cfg_path, read_config_file(w.fs, cfg_path))

uninstall_via_file(w, definition, dry_run) ==
    UninstallAtPath(w, definition, dry_run, get_client_config_path(definition, None))

uninstall_from_client(w, definition, dry_run, outcome) ==
    IF definition.type = "cli"
    THEN uninstall_via_cli(w, definition, dry_run, outcome)
    ELSE uninstall_via_file(w, definition, dry_run)

\* the body of the loop of execute_uninstall, from the result r of
\* uninstall_from_client on
UninstallOutcome(res, r) ==
    IF r.exc = NoExc
    THEN [exc |-> NoExc, w |-> r.w,
          result |->
              IF r.status = "removed"
              THEN [res EXCEPT !.removed = Append(@, [name |-> r.name, id |-> r.id,
                                                      method |-> r.method, path |-> r.path])]
              ELSE IF r.status = "notConfigured"
              THEN [res EXCEPT !.notConfigured = Append(@, r.name)]
              ELSE [res EXCEPT !.errors = Append(@, [name |-> r.name, message |-> r.message])]]
    ELSE IF CaughtByHandler(r.exc)
    THEN [exc |-> NoExc, w |-> r.w,
          result |-> [res EXCEPT !.errors = Append(@, [name |-> r.name, message |-> r.exc])]]
    ELSE [exc |-> r.exc, w |-> r.w, result |-> res]

\* one iteration of the loop of execute_uninstall
uninstall_iteration(w, res, definition, dry_run, outcome) ==
    UninstallOutcome(res, uninstall_from_client(w, definition, dry_run, outcome))

-----------------------------------------------------------------------------
(* doctor.py *)

\* what the `claude mcp get gasoline` probe can do
ProbeOutcomes == {"exit0", "failed"}

Tool(definition, status, issue, suggestion, e) ==
    [id |-> definition.id, name |-> definition.name, type |-> definition.type,
     status |-> status, issue |-> issue, suggestion |-> suggestion, exc |-> e]

\* _diagnose_file_client reporting ok for every document it could look into
DiagnoseLooked_ok_without_entry(definition, looked) ==
    IF looked.exc # NoExc THEN Tool(definition, "raised", None, None, looked.exc)
    ELSE Tool(definition, "ok", None, None, NoExc)

\* _diagnose_file_client, from the looked-up gasoline entry on
DiagnoseLooked(definition, looked) ==
    IF looked.exc # NoExc THEN Tool(definition, "raised", None, None, looked.exc)
    ELSE IF ~Truthy(looked.val)
    THEN Tool(definition, "error", "gasoline entry missing from mcpServers",
              "Run: gasoline-mcp --install", NoExc)
    ELSE Tool(definition, "ok", None, None, NoExc)

\* _diagnose_file_client, from the result of read_config_file on
DiagnoseRead(definition, read_result) ==
    IF read_result.exc # NoExc THEN Tool(definition, "raised", None, None, read_result.exc)
    ELSE IF ~read_result.valid
    THEN Tool(definition, "error", "Invalid JSON", "Fix the JSON syntax", NoExc)
    ELSE DiagnoseLooked(definition, LookupGasoline(read_result.data))

\* _diagnose_file_client, from the resolved config path on
DiagnoseAtPath(f, definition, cfg_path) ==
    IF ~is_client_installed(definition)
    THEN Tool(definition, "info", "Not installed on this system", None, NoExc)
    ELSE IF cfg_path = None
    THEN Tool(definition, "info", "No config path for this platform", None, NoExc)
    ELSE IF ~Exists(f, cfg_path)
    THEN Tool(definition, "error", "Config file not found", "Run: gasoline-mcp --install", NoExc)
    ELSE DiagnoseRead(definition, read_config_file(f, cfg_path))

diagnose_file_client(f, definition) ==
    DiagnoseAtPath(f, definition, get_client_config_path(definition, None))

diagnose_cli_client(definition, probe) ==
    IF ~is_client_installed(definition)
    THEN Tool(definition, "info", "CLI not found on PATH", None, NoExc)
    ELSE IF probe = "exit0" THEN Tool(definition, "ok", None, None, NoExc)
    ELSE Tool(definition, "error", "gasoline not configured", "Run: gasoline-mcp --install", NoExc)

\* _check_legacy_paths flagging every legacy file that could be read
LegacyFlagged_any_document(read_result) ==
    read_result.exc = NoExc /\ read_result.valid

\* whether _check_legacy_paths flags a read legacy file; every exception is swallowed
LegacyFlagged(read_result) ==
    /\ read_result.exc = NoExc
    /\ read_result.valid
    /\ LookupGasoline(read_result.data).exc = NoExc
    /\ Truthy(LookupGasoline(read_result.data).val)

check_legacy_paths(f) ==
    SelectSeq([i \in DOMAIN LEGACY_PATHS |-> expand_path(LEGACY_PATHS[i])],
              LAMBDA path : Exists(f, path) /\ LegacyFlagged(read_config_file(f, path)))

\* the tools list of run_diagnostics over definitions i.., up to the first exception
RECURSIVE DiagnoseFrom(_, _, _)
RECURSIVE DiagnoseRest(_, _, _, _)
DiagnoseFrom(f, i, probe) ==
    IF i > Len(CLIENT_DEFINITIONS) THEN <<>>
    ELSE DiagnoseRest(f, i, probe,
             IF CLIENT_DEFINITIONS[i].type = "cli"
             THEN diagnose_cli_client(CLIENT_DEFINITIONS[i], probe)
             ELSE diagnose_file_client(f, CLIENT_DEFINITIONS[i]))

DiagnoseRest(f, i, probe, t) ==
    IF t.exc # NoExc THEN <<t>> ELSE <<t>> \o DiagnoseFrom(f, i + 1, probe)

\* run_diagnostics, from the tools list on
DiagnosticReport(f, tools) ==
    IF tools[Len(tools)].exc # NoExc
    THEN [exc |-> tools[Len(tools)].exc, tools |-> <<>>, legacyWarnings |-> <<>>]
    ELSE [exc |-> NoExc, tools |-> tools, legacyWarnings |-> check_legacy_paths(f)]

run_diagnostics(f, probe) == DiagnosticReport(f, DiagnoseFrom(f, 1, probe))

-----------------------------------------------------------------------------
(* Initial file systems *)

OtherNames == <<"other", "other2", "other3">>

OtherEntry(i) == JDict(<<Item("command", JStr(OtherNames[i]))>>)

\* the first j sibling entries, in order
Others(j) == [i \in 1..j |-> Item(OtherNames[i], OtherEntry(i))]

EnvDebug == JDict(<<Item("DEBUG", JStr("1"))>>)

\* the --env mappings an invocation may pass
EnvChoices == {JDict(<<>>), EnvDebug}

\* an entry of an older installation, and an empty (falsy) entry
OldEntry == JDict(<<Item("command", JStr("old")), Item("env", JDict(<<Item("OLD", JStr("1"))>>))>>)
GasolineValues == {GasolineEntry, OldEntry, JDict(<<>>)}

\* the mcpServers objects of the initial documents
ServerDicts ==
    {JDict(Others(j)) : j \in 0..MaxOthers}
    \cup {JDict(<<Item(GASOLINE, g)>> \o Others(j)) : j \in 0..MaxOthers, g \in GasolineValues}
    \cup {JDict(Others(j) \o <<Item(GASOLINE, g)>>) : j \in 1..MaxOthers, g \in GasolineValues}

\* the top-level documents of the initial files: objects with or without
\* mcpServers (an object or null), with or without another top-level key,
\* and a document that is no object
Documents ==
    LET extras == {<<>>, <<Item("theme", JStr("dark"))>>}
    IN  {JDict(x \o <<Item(MCP_SERVERS, sv)>>) : x \in extras, sv \in ServerDicts \cup {JNull}}
        \cup {JDict(x) : x \in extras}
        \cup {JList}

UserFile(doc) == JsonFile(doc, "compact", DumpSize(doc))

\* a document padded with whitespace to a given size
PaddedFile(doc, size) == JsonFile(doc, "compact", size)

SimpleDoc == JDict(<<Item(MCP_SERVERS, JDict(Others(1)))>>)
InstalledDoc == JDict(<<Item(MCP_SERVERS, JDict(<<Item(GASOLINE, GasolineEntry)>> \o Others(1)))>>)

RichFiles ==
    {Absent, GarbageFile, BinaryFile} \cup {UserFile(d) : d \in Documents}

CoarseFiles ==
    {Absent, GarbageFile, BinaryFile, UserFile(SimpleDoc), UserFile(InstalledDoc),
     PaddedFile(InstalledDoc, MAX_CONFIG_SIZE + 1), PaddedFile(SimpleDoc, MAX_CONFIG_SIZE)}

HostPlatforms == {"linux"}

DetectDirOf(path) == CHOOSE d \in ParentDirs(path) : TRUE
HostDetectDirs == {DetectDirOf(p) : p \in HostConfigPaths}

EmptyResult ==
    [success |-> FALSE, updated |-> <<>>, errors |-> <<>>, diffs |-> <<>>,
     removed |-> <<>>, notConfigured |-> <<>>, tools |-> <<>>, legacyWarnings |-> <<>>]

NoOptions == [dryRun |-> FALSE, forAll |-> FALSE, envVars |-> JDict(<<>>), override |-> FALSE]
NoPrev == [op |-> "none", options |-> NoOptions, pc |-> "idle", result |-> EmptyResult]
NoWriting == [path |-> None, data |-> JNull, dry_run |-> FALSE]

\* what every initial state shares: nothing runs, no temporary file is left
InitCommon ==
    /\ sysPlatform \in HostPlatforms
    /\ pc = "idle"
    /\ op = "none"
    /\ options = NoOptions
    /\ clients = <<>>
    /\ idx = 1
    /\ found_existing = FALSE
    /\ result = EmptyResult
    /\ raised = NoExc
    /\ calls = <<>>
    /\ prev = NoPrev
    /\ writing = NoWriting

\* a file system holding `files` at the config paths; the detect directory of
\* an existing config file exists
InitWorld(files, extraDirs) ==
    /\ fs = [k \in FsDomain |-> IF k[2] = "" /\ k[1] \in DOMAIN files THEN files[k[1]] ELSE Absent]
    /\ dirs = {DetectDirOf(p) : p \in {q \in DOMAIN files : files[q].kind # "absent"}} \cup extraDirs
    /\ fs0 = fs
    /\ dirs0 = dirs
    /\ fsPrev = fs

\* one operation on a host with any mix of usable and broken config files
Init ==
    /\ InitCommon
    /\ cliOnPath \in BOOLEAN
    /\ budget = 1
    /\ \E files \in [HostConfigPaths -> CoarseFiles], extra \in {{}, HostDetectDirs} :
          InitWorld(files, extra)
    /\ unwritable \in {{}} \cup {{p} : p \in HostConfigPaths}

\* operations in a row on a host where one file client holds any document
\* and the command-line client is not on PATH
InitSeq ==
    /\ InitCommon
    /\ cliOnPath = FALSE
    /\ budget = MaxOps
    /\ \E focus \in HostConfigPaths, file \in RichFiles :
          InitWorld([p \in HostConfigPaths |-> IF p = focus THEN file ELSE Absent], HostDetectDirs)
    /\ unwritable = {}

-----------------------------------------------------------------------------
(* Operations.  One command-line invocation runs one operation; the next    *)
(* invocation starts when the previous one has returned or raised.          *)

env == <<sysPlatform, unwritable, cliOnPath>>

CanStart == pc \in {"idle", "done", "raised"} /\ budget > 0

\* the bookkeeping of a start: the previous operation is remembered; c is
\* what the operation has called when the action is through
BeginWith(kind, opts, c) ==
    /\ op' = kind
    /\ options' = opts
    /\ idx' = 1
    /\ found_existing' = FALSE
    /\ calls' = c
    /\ fs0' = fs
    /\ dirs0' = dirs
    /\ fsPrev' = fs0
    /\ prev' = [op |-> op, options |-> options, pc |-> pc, result |-> result]
    /\ budget' = budget - 1

Begin(kind, opts) == BeginWith(kind, opts, <<>>) /\ raised' = NoExc

\* execute_install(options): up to the loop
StartInstall ==
    /\ CanStart
    /\ \E dry \in BOOLEAN, all \in BOOLEAN, ev \in EnvChoices :
          Begin("install", [dryRun |-> dry, forAll |-> all, envVars |-> ev, override |-> FALSE])
    /\ result' = EmptyResult
    /\ clients' = <<>>
    /\ pc' = IF get_config_candidates = <<>> THEN "install_end" ELSE "install"
    /\ UNCHANGED <<fs, dirs, env, writing>>

\* execute_install: one iteration of `for candidate_path in candidates`
InstallStep ==
    /\ pc = "install"
    /\ \E r \in {process_candidate(World(fs, dirs, calls), result, get_config_candidates[idx],
                                    GasolineEntry, options.envVars, options.dryRun,
                                    options.forAll)} :
           /\ fs' = r.w.fs
           /\ dirs' = r.w.dirs
           /\ calls' = r.w.calls
           /\ result' = r.result
           /\ raised' = r.exc
           /\ found_existing' = (found_existing \/ r.is_existing)
           /\ idx' = idx + 1
           /\ pc' = IF r.exc # NoExc THEN "raised"
                    ELSE IF r.should_stop \/ idx = Len(get_config_candidates) THEN "install_end"
                    ELSE "install"
    /\ UNCHANGED <<env, writing, op, options, clients, fs0, dirs0, prev, fsPrev, budget>>

\* execute_install: after the loop, the fallback and the success flag
InstallFinish ==
    /\ pc = "install_end"
    /\ \E r \in {IF ~found_existing /\ ~options.forAll /\ result.updated = <<>>
                 THEN apply_fallback(World(fs, dirs, calls), result, get_config_candidates,
                                     GasolineEntry, options.envVars, options.dryRun)
                 ELSE [exc |-> NoExc, w |-> World(fs, dirs, calls), result |-> result]} :
           /\ fs' = r.w.fs
           /\ dirs' = r.w.dirs
           /\ calls' = r.w.calls
           /\ raised' = r.exc
           /\ result' = IF r.exc # NoExc THEN r.result
                        ELSE [r.result EXCEPT !.success = Len(r.result.updated) > 0]
           /\ pc' = IF r.exc # NoExc THEN "raised" ELSE "done"
    /\ UNCHANGED <<env, writing, op, options, clients, idx, found_existing, fs0, dirs0, prev, fsPrev, budget>>

\* execute_uninstall(options): up to the loop
StartUninstall ==
    /\ CanStart
    /\ \E dry \in BOOLEAN, override \in BOOLEAN :
          /\ Begin("uninstall", [dryRun |-> dry, forAll |-> FALSE, envVars |-> JDict(<<>>),
                                 override |-> override])
          /\ clients' = IF override THEN CLIENT_DEFINITIONS ELSE get_detected_clients
          /\ pc' = IF clients' = <<>> THEN "uninstall_end" ELSE "uninstall"
    /\ result' = EmptyResult
    /\ UNCHANGED <<fs, dirs, env, writing>>

\* execute_uninstall: one iteration of `for definition in clients`
UninstallStep ==
    /\ pc = "uninstall"
    /\ \E outcome \in IF clients[idx].type = "cli" /\ ~options.dryRun THEN CliOutcomes ELSE {"exit0"} :
          \E r \in {uninstall_iteration(World(fs, dirs, calls), result, clients[idx],
                                         options.dryRun, outcome)} :
              /\ fs' = r.w.fs
              /\ dirs' = r.w.dirs
              /\ calls' = r.w.calls
              /\ result' = r.result
              /\ raised' = r.exc
              /\ idx' = idx + 1
              /\ pc' = IF r.exc # NoExc THEN "raised"
                       ELSE IF idx = Len(clients) THEN "uninstall_end"
                       ELSE "uninstall"
    /\ UNCHANGED <<env, writing, op, options, clients, found_existing, fs0, dirs0, prev, fsPrev, budget>>

\* execute_uninstall: after the loop, the success flag
UninstallFinish ==
    /\ pc = "uninstall_end"
    /\ result' = [result EXCEPT !.success = Len(result.removed) > 0]
    /\ pc' = "done"
    /\ UNCHANGED <<env, writing, fs, dirs, op, options, clients, idx, found_existing, raised, calls,
                   fs0, dirs0, prev, fsPrev, budget>>

\* the `claude mcp get gasoline` probe of _diagnose_cli_client, run when the
\* command is on PATH
ProbeCalls(probe) ==
    IF cliOnPath
    THEN <<[fn |-> "subprocess.run", path |-> Dest("claude"), by |-> "_diagnose_cli_client",
            ret |-> probe]>>
    ELSE <<>>

\* run_diagnostics followed by a repair: the default document written to the
\* first candidate path
RunDiagnostics_repairing ==
    /\ CanStart
    /\ \E probe \in IF cliOnPath THEN ProbeOutcomes ELSE {"failed"} :
          \E r \in {run_diagnostics(fs, probe)} :
              /\ BeginWith("doctor", NoOptions,
                           ProbeCalls(probe)
                           \o <<[fn |-> "open_w", path |-> Dest(get_config_candidates[1]),
                                 by |-> "write_config_file", ret |-> None]>>)
              /\ result' = [EmptyResult EXCEPT !.tools = r.tools,
                                               !.legacyWarnings = r.legacyWarnings]
              /\ raised' = r.exc
              /\ pc' = IF r.exc # NoExc THEN "raised" ELSE "done"
    /\ fs' = [fs EXCEPT ![Dest(get_config_candidates[1])] = JsonDump(generate_default_config)]
    /\ clients' = <<>>
    /\ UNCHANGED <<dirs, env, writing>>

\* run_diagnostics()
RunDiagnostics ==
    /\ CanStart
    /\ \E probe \in IF cliOnPath THEN ProbeOutcomes ELSE {"failed"} :
          \E r \in {run_diagnostics(fs, probe)} :
              /\ BeginWith("doctor", NoOptions, ProbeCalls(probe))
              /\ result' = [EmptyResult EXCEPT !.tools = r.tools,
                                               !.legacyWarnings = r.legacyWarnings]
              /\ raised' = r.exc
              /\ pc' = IF r.exc # NoExc THEN "raised" ELSE "done"
    /\ clients' = <<>>
    /\ UNCHANGED <<fs, dirs, env, writing>>

Next ==
    \/ StartInstall
    \/ InstallStep
    \/ InstallFinish
    \/ StartUninstall
    \/ UninstallStep
    \/ UninstallFinish
    \/ RunDiagnostics

Spec == Init /\ [][Next]_vars

SpecSeq == InitSeq /\ [][Next]_vars

-----------------------------------------------------------------------------
(* write_config_file step by step: each file operation is a step, and the   *)
(* process may be interrupted (a signal, a kill) before any of them         *)

\* the destination itself opened for writing, without a temporary file
OpenTemp_in_place(w, path) == [w EXCEPT !.fs[Dest(path)] = PartialFile]

\* with open(temp_path, "w") as f: the file exists, nothing is written yet
OpenTemp(w, path) == [w EXCEPT !.fs[Temp(path)] = PartialFile]

\* the document _install_candidate builds for path, when it gets that far
InstallPayloads(f, path, read_result) ==
    IF read_result.exc # NoExc THEN {}
    ELSE {m.val : m \in {mm \in {merge_gasoline_config(
                                    IF read_result.valid THEN read_result.data
                                    ELSE generate_default_config,
                                    GasolineEntry, ev) : ev \in EnvChoices} : mm.exc = NoExc}}

\* the document _uninstall_via_file writes back for path, when it writes one
UninstallPayloads(f, path, read_result) ==
    IF read_result.exc # NoExc \/ ~read_result.valid THEN {}
    ELSE {RemoveGasoline(read_result.data) : x \in
            {l \in {LookupGasoline(read_result.data)} :
                /\ l.exc = NoExc /\ Truthy(l.val)
                /\ Truthy(DictGet(RemoveGasoline(read_result.data), MCP_SERVERS))}}

\* the documents the callers of write_config_file pass for path: those of
\* _install_candidate and _uninstall_via_file, and _install_default_candidate's
WritePayloads(f, path) ==
    InstallPayloads(f, path, read_config_file(f, path))
    \cup UninstallPayloads(f, path, read_config_file(f, path))
    \cup {merge_gasoline_config(generate_default_config, GasolineEntry, ev).val : ev \in EnvChoices}

SoleEntryDoc == JDict(<<Item(MCP_SERVERS, JDict(<<Item(GASOLINE, GasolineEntry)>>))>>)

WriteFiles == CoarseFiles \cup {UserFile(SoleEntryDoc)}

\* writes in a row to the config file of one client
InitWrite ==
    /\ InitCommon
    /\ cliOnPath = FALSE
    /\ budget = MaxOps
    /\ \E focus \in HostConfigPaths, file \in WriteFiles :
          /\ InitWorld([p \in HostConfigPaths |-> IF p = focus THEN file ELSE Absent], {})
          /\ unwritable \in {{}, {focus}}

WriteInProgress == {"w_makedirs", "w_open", "w_dump", "w_exists", "w_rename"}

\* write_config_file(path, data, dry_run) is called
WriteStart ==
    /\ pc \in {"idle", "w_done", "w_raised", "w_interrupted"}
    /\ budget > 0
    /\ \E p \in HostConfigPaths, dry \in BOOLEAN :
          \E data \in WritePayloads(fs, p) :
              /\ writing' = [path |-> p, data |-> data, dry_run |-> dry]
              /\ pc' = IF dry THEN "w_done" ELSE "w_makedirs"
    /\ op' = "write"
    /\ raised' = NoExc
    /\ calls' = <<>>
    /\ fs0' = fs
    /\ dirs0' = dirs
    /\ budget' = budget - 1
    /\ UNCHANGED <<fs, dirs, env, options, clients, idx, found_existing, result, prev, fsPrev>>

\* the part of a step that every step shares
WriteStep(from, w, to, exc) ==
    /\ pc = from
    /\ fs' = w.fs
    /\ dirs' = w.dirs
    /\ calls' = w.calls
    /\ pc' = to
    /\ raised' = exc
    /\ UNCHANGED <<env, writing, op, options, clients, idx, found_existing, result,
                   fs0, dirs0, prev, fsPrev, budget>>

\* os.makedirs(os.path.dirname(path), exist_ok=True); an OSError here or at
\* the open that follows becomes GasolineError
WriteMakeDirs ==
    IF writing.path \in unwritable
    THEN WriteStep("w_makedirs", World(fs, dirs, calls), "w_raised", "GasolineError")
    ELSE WriteStep("w_makedirs", MakeDirs(World(fs, dirs, calls), writing.path), "w_open", NoExc)

\* open(temp_path, "w")
WriteOpenTemp ==
    WriteStep("w_open", OpenTemp(World(fs, dirs, calls), writing.path), "w_dump", NoExc)

\* json.dump(data, f, indent=2); f.write("\n"); the file is closed
WriteDump ==
    WriteStep("w_dump", WriteTemp(World(fs, dirs, calls), writing.path, writing.data),
              "w_exists", NoExc)

\* if os.path.exists(path): os.remove(path)
WriteRemoveDest ==
    WriteStep("w_exists", RemoveDest(World(fs, dirs, calls), writing.path), "w_rename", NoExc)

\* os.rename(temp_path, path); return
WriteRename ==
    WriteStep("w_rename", Rename(World(fs, dirs, calls), writing.path), "w_done", NoExc)

\* the process is interrupted before its next step: KeyboardInterrupt is no
\* OSError, nothing is cleaned up
WriteInterrupted ==
    /\ pc \in WriteInProgress
    /\ pc' = "w_interrupted"
    /\ raised' = "KeyboardInterrupt"
    /\ UNCHANGED <<env, writing, fs, dirs, calls, op, options, clients, idx, found_existing,
                   result, fs0, dirs0, prev, fsPrev, budget>>

NextWrite ==
    \/ WriteStart
    \/ WriteMakeDirs
    \/ WriteOpenTemp
    \/ WriteDump
    \/ WriteRemoveDest
    \/ WriteRename
    \/ WriteInterrupted

SpecWrite == InitWrite /\ [][NextWrite]_vars

-----------------------------------------------------------------------------
(* Vocabulary of the properties *)

\* the primitives that change files, directories or a client's own registry
MutatingCalls == {"os.makedirs", "open_w", "os.remove", "os.rename", "subprocess.run"}

\* mcpServers of a document, {} when the key is missing
ServersOf(doc) == IF DictHas(doc, MCP_SERVERS) THEN DictGet(doc, MCP_SERVERS) ELSE JDict(<<>>)

\* a file read_config_file returns as a JSON object
ReadableObject(file) ==
    file.kind = "json" /\ file.size <= MAX_CONFIG_SIZE /\ IsDict(file.val)

\* a file whose mcpServers (when present) is an object
HasServers(file) == ReadableObject(file) /\ IsDict(ServersOf(file.val))

\* a path an install can put the entry at: no file yet, or a document to merge into
Mergeable(file) == file.kind = "absent" \/ HasServers(file)

\* a file that holds a service entry (a non-empty object under the service key)
HoldsEntry(file) ==
    /\ HasServers(file)
    /\ DictHas(ServersOf(file.val), GASOLINE)
    /\ Truthy(DictGet(ServersOf(file.val), GASOLINE))

\* the config file of a client held a service entry when the operation started
HoldsEntryAtStart(d) ==
    /\ get_client_config_path(d, None) # None
    /\ HoldsEntry(fs0[Dest(get_client_config_path(d, None))])

\* the sibling entries of a file that has servers
SiblingKeys(file) == DictKeys(ServersOf(file.val)) \ {GASOLINE}

\* a file install cannot read
Unreadable(file) ==
    file.kind \in {"garbage", "binary"} \/ (file.kind = "json" /\ file.size > MAX_CONFIG_SIZE)

UpdatedPaths(res) == {res.updated[i].path : i \in DOMAIN res.updated}
RemovedIds(res) == {res.removed[i].id : i \in DOMAIN res.removed}
RemovedPaths(res) == {res.removed[i].path : i \in DOMAIN res.removed}

\* the candidates / clients the running loop has gone through
Attempted == {get_config_candidates[i] : i \in 1..(idx - 1) \cap DOMAIN get_config_candidates}
Processed == {clients[i] : i \in 1..(idx - 1) \cap DOMAIN clients}

\* the clients detected when the running operation started
DetectedAtStart ==
    {CLIENT_DEFINITIONS[i] : i \in {j \in DOMAIN CLIENT_DEFINITIONS :
        LET d == CLIENT_DEFINITIONS[j]
        IN  IF d.type = "cli" THEN cliOnPath
            ELSE get_client_detect_dir(d, None) # None /\ get_client_detect_dir(d, None) \in dirs0}}

DetectedPathsAtStart ==
    {get_client_config_path(d, None) : d \in {c \in DetectedAtStart : c.type = "file"}}

-----------------------------------------------------------------------------
(* C1: with dry-run on, install and uninstall create, modify and delete no   *)
(* file or directory and call no mutating primitive, and still report every  *)
(* client they went through and would have acted on: a candidate whose file  *)
(* is missing or mergeable is in `updated`, a command-line client or a file  *)
(* client holding the entry is in `removed`.                                 *)
C1_DryRunPure ==
    (op \in {"install", "uninstall"} /\ options.dryRun) =>
        /\ fs = fs0
        /\ dirs = dirs0
        /\ \A i \in DOMAIN calls : calls[i].fn \notin MutatingCalls
        /\ op = "install" =>
              \A p \in Attempted : Mergeable(fs0[Dest(p)]) => p \in UpdatedPaths(result)
        /\ op = "uninstall" =>
              \A d \in Processed :
                  (d.type = "cli" \/ HoldsEntryAtStart(d)) => d.id \in RemovedIds(result)

\* a dry-run install has returned, reporting a file it would have created
C1_Witness ==
    /\ op = "install" /\ options.dryRun /\ pc = "done"
    /\ \E p \in UpdatedPaths(result) : fs0[Dest(p)].kind = "absent"
    /\ \E i \in DOMAIN calls : calls[i].fn = "write_config_file"

-----------------------------------------------------------------------------
(* C2: in an install over every client (forAll) where exactly one client's   *)
(* file cannot be read or written, the batch still returns, its result holds *)
(* exactly one error entry, naming that client, and every other client is in *)
(* `updated`.                                                                *)
FailingPaths ==
    {p \in HostConfigPaths : Unreadable(fs0[Dest(p)]) \/ (p \in unwritable /\ ~options.dryRun)}

C2_PartialFailureIsolated ==
    (/\ op = "install" /\ options.forAll
     /\ pc \in {"done", "raised"}
     /\ Cardinality(FailingPaths) = 1) =>
        /\ pc = "done"
        /\ Len(result.errors) = 1
        /\ \A p \in FailingPaths : result.errors[1].name = get_tool_name_from_path(p)
        /\ \A p \in HostConfigPaths \ FailingPaths : p \in UpdatedPaths(result)

-----------------------------------------------------------------------------
(* C3: an install with default options (forAll not selected) that returns    *)
(* has attempted every candidate client.                                     *)
C3_DefaultAttemptsAll ==
    (op = "install" /\ ~options.forAll /\ pc = "done") =>
        Attempted = HostConfigPaths

-----------------------------------------------------------------------------
(* C4: install changes the config file of no client outside its target set   *)
(* (the clients detected when it started), and with an empty target set it   *)
(* writes nothing and returns success = false.                               *)
C4_OnlyTargets ==
    op = "install" =>
        /\ \A p \in HostConfigPaths :
              fs[Dest(p)] # fs0[Dest(p)] => p \in DetectedPathsAtStart
        /\ (pc = "done" /\ DetectedAtStart = {}) => (fs = fs0 /\ ~result.success)

-----------------------------------------------------------------------------
(* Vocabulary of the properties on operations in a row *)

\* the operation before the running one was an install that returned and wrote
AfterInstall == prev.op = "install" /\ prev.pc = "done" /\ ~prev.options.dryRun

\* the files hold the same JSON document, or are both missing
SameDocument(a, b) ==
    \/ a.kind = "absent" /\ b.kind = "absent"
    \/ a.kind = "json" /\ b.kind = "json" /\ PyEq(a.val, b.val)

\* file `after` has the sibling entries of file `before`, keys and values
KeepsSiblings(before, after) ==
    /\ HasServers(after)
    /\ SiblingKeys(after) = SiblingKeys(before)
    /\ \A k \in SiblingKeys(before) :
          DictGet(ServersOf(after.val), k) = DictGet(ServersOf(before.val), k)

\* document a equals document d, except that a may hold an empty mcpServers
\* where d has no such key
SameModuloServersKey(a, d) ==
    IF DictHas(d, MCP_SERVERS) THEN PyEq(a, d)
    ELSE PyEq(DictDel(a, MCP_SERVERS), d) /\ ServersOf(a) = JDict(<<>>)

\* the documents a running install (not a dry run) has merged the entry into
MergedInto ==
    IF op = "install" /\ ~options.dryRun
    THEN {p \in UpdatedPaths(result) \cap HostConfigPaths : ReadableObject(fs0[Dest(p)])}
    ELSE {}

\* removing the entry from the document install wrote at p gives back the
\* document that was there
RoundTrip(p) == SameModuloServersKey(RemoveGasoline(fs[Dest(p)].val), fs0[Dest(p)].val)

\* the files an install and the uninstall right after it both acted on
InstalledThenRemoved ==
    IF op = "uninstall" /\ pc = "done" /\ ~options.dryRun /\ AfterInstall
    THEN (UpdatedPaths(prev.result) \cap RemovedPaths(result)) \cap HostConfigPaths
    ELSE {}

-----------------------------------------------------------------------------
(* C5: a second install with the same environment variables leaves every     *)
(* file the first install wrote exactly as the first install left it         *)
(* (content, layout and size).                                               *)
C5_InstallIdempotent ==
    (op = "install" /\ ~options.dryRun /\ AfterInstall
     /\ prev.options.envVars = options.envVars) =>
        \A p \in UpdatedPaths(prev.result) : fs[Dest(p)] = fs0[Dest(p)]

\* the second install has returned after rewriting a file the first one wrote
C5_Witness ==
    /\ op = "install" /\ ~options.dryRun /\ AfterInstall /\ pc = "done"
    /\ prev.options.envVars = options.envVars
    /\ \E p \in UpdatedPaths(prev.result) \cap UpdatedPaths(result) :
          /\ \E i \in DOMAIN calls : calls[i] = [fn |-> "os.rename", path |-> Dest(p),
                                                 by |-> "write_config_file", ret |-> None]
          /\ SiblingKeys(fs[Dest(p)]) # {}

-----------------------------------------------------------------------------
-----------------------------------------------------------------------------
-----------------------------------------------------------------------------
(* C8: after an uninstall (not a dry run) has gone through a file client     *)
(* whose readable, writable config file held the service entry and no other  *)
(* entry, the client is reported removed and the file no longer exists.      *)
C8_SoleEntryDeletesFile ==
    (op = "uninstall" /\ ~options.dryRun) =>
        \A d \in Processed :
            (/\ d.type = "file" /\ HoldsEntryAtStart(d)
             /\ SiblingKeys(fs0[Dest(get_client_config_path(d, None))]) = {}
             /\ get_client_config_path(d, None) \notin unwritable)
                => /\ d.id \in RemovedIds(result)
                   /\ fs[Dest(get_client_config_path(d, None))].kind = "absent"

\* an uninstall has returned after deleting a file that held the entry alone
C8_Witness ==
    /\ op = "uninstall" /\ ~options.dryRun /\ pc = "done"
    /\ \E d \in Processed :
          /\ d.type = "file" /\ HoldsEntryAtStart(d)
          /\ SiblingKeys(fs0[Dest(get_client_config_path(d, None))]) = {}
          /\ d.id \in RemovedIds(result)
          /\ fs[Dest(get_client_config_path(d, None))].kind = "absent"

-----------------------------------------------------------------------------
(* C9: after an uninstall (not a dry run) has gone through a file client     *)
(* whose readable, writable config file held the service entry and at least  *)
(* one other entry, the client is reported removed, the file still exists,   *)
(* it no longer holds the service key, and the other entries are unchanged.  *)
C9_SiblingsSurviveUninstall ==
    (op = "uninstall" /\ ~options.dryRun) =>
        \A d \in Processed :
            (/\ d.type = "file" /\ HoldsEntryAtStart(d)
             /\ SiblingKeys(fs0[Dest(get_client_config_path(d, None))]) # {}
             /\ get_client_config_path(d, None) \notin unwritable)
                => /\ d.id \in RemovedIds(result)
                   /\ fs[Dest(get_client_config_path(d, None))].kind = "json"
                   /\ ~DictHas(ServersOf(fs[Dest(get_client_config_path(d, None))].val), GASOLINE)
                   /\ KeepsSiblings(fs0[Dest(get_client_config_path(d, None))],
                                    fs[Dest(get_client_config_path(d, None))])

\* an uninstall has returned after rewriting a file without the entry
C9_Witness ==
    /\ op = "uninstall" /\ ~options.dryRun /\ pc = "done"
    /\ \E d \in Processed :
          /\ d.type = "file" /\ HoldsEntryAtStart(d)
          /\ SiblingKeys(fs0[Dest(get_client_config_path(d, None))]) # {}
          /\ d.id \in RemovedIds(result)
          /\ fs[Dest(get_client_config_path(d, None))] # fs0[Dest(get_client_config_path(d, None))]

-----------------------------------------------------------------------------
\* the primitives that create, change or delete a file or directory
FileMutators == {"os.makedirs", "open_w", "os.remove", "os.rename"}

\* the call is uninstall deleting a config file whose only entry was removed
IsUninstallDeletion(c) ==
    /\ c.fn = "os.remove" /\ c.by = "_uninstall_via_file" /\ op = "uninstall"
    /\ c.path[2] = ""
    /\ HoldsEntry(fs0[c.path]) /\ SiblingKeys(fs0[c.path]) = {}

(* C10 as stated: every creation, change or deletion of a config path by     *)
(* install, uninstall or diagnose is made by write_config_file.              *)
C10_OnlyWriteMutates ==
    /\ \A i \in DOMAIN calls : calls[i].fn \in FileMutators => calls[i].by = "write_config_file"
    /\ \A k \in FsDomain :
          fs[k] # fs0[k] => \E i \in DOMAIN calls :
              calls[i].fn \in FileMutators /\ calls[i].by = "write_config_file"

(* C10 amended: every file install, uninstall or diagnose creates or changes *)
(* is written by write_config_file; the one mutation made elsewhere is       *)
(* uninstall deleting a config file whose only entry was the service entry;  *)
(* diagnose mutates nothing.                                                 *)
C10_WriteOrUninstallDeletion ==
    /\ \A i \in DOMAIN calls :
          (calls[i].fn \in FileMutators /\ calls[i].by # "write_config_file")
              => IsUninstallDeletion(calls[i])
    /\ \A k \in FsDomain :
          fs[k] # fs0[k] =>
              IF fs[k].kind # "absent"
              THEN \E i \in DOMAIN calls :
                      /\ calls[i].by = "write_config_file"
                      /\ calls[i].fn = "os.rename" /\ calls[i].path = <<k[1], "">>
              ELSE \E i \in DOMAIN calls : calls[i].fn = "os.remove" /\ calls[i].path = k
    /\ op = "doctor" => (calls = <<>> /\ fs = fs0 /\ dirs = dirs0)

\* an uninstall has returned after rewriting one config file through
\* write_config_file and deleting another itself
C10_Witness ==
    /\ op = "uninstall" /\ pc = "done"
    /\ \E i \in DOMAIN calls : IsUninstallDeletion(calls[i])
    /\ \E i \in DOMAIN calls : calls[i].fn = "os.rename" /\ calls[i].by = "write_config_file"

-----------------------------------------------------------------------------
(* C11: whenever a write is interrupted, and at every step of it, no config  *)
(* path holds a partially written file: each holds what it held when the     *)
(* write started, or the path being written holds the complete new document  *)
(* or does not exist.                                                        *)
C11_NoPartialConfigFile ==
    \A p \in HostPaths :
        /\ fs[Dest(p)].kind # "partial"
        /\ op = "write" =>
              \/ fs[Dest(p)] = fs0[Dest(p)]
              \/ p = writing.path /\ fs[Dest(p)] \in {Absent, JsonDump(writing.data)}

\* a write was interrupted while the temporary file was half written, over an
\* existing config file
C11_Witness ==
    /\ op = "write" /\ pc = "w_interrupted"
    /\ fs[Temp(writing.path)].kind = "partial"
    /\ Exists(fs, writing.path)

-----------------------------------------------------------------------------
(* C12: at every step of a write (not a dry run) to an existing destination, *)
(* and after an interruption or failure of it, the destination holds the     *)
(* complete previous document or the complete new document.                  *)
C12_AtomicReplace ==
    (op = "write" /\ ~writing.dry_run /\ Exists(fs0, writing.path)) =>
        fs[Dest(writing.path)] \in {fs0[Dest(writing.path)], JsonDump(writing.data)}

-----------------------------------------------------------------------------
\* the document install writes where it starts from the default document
DefaultInstalled ==
    JsonDump(merge_gasoline_config(generate_default_config, GasolineEntry, options.envVars).val)

(* C13: an install that has gone through a file client whose config file was *)
(* absent or not valid JSON (and can be written) reports the client in       *)
(* `updated`, and has written the default document with the service entry    *)
(* there (nothing, in a dry run).                                            *)
C13_ReadOrDefault ==
    op = "install" =>
        \A p \in Attempted :
            (fs0[Dest(p)].kind \in {"absent", "garbage", "binary"} /\ p \notin unwritable) =>
                /\ p \in UpdatedPaths(result)
                /\ fs[Dest(p)] = IF options.dryRun THEN fs0[Dest(p)] ELSE DefaultInstalled

-----------------------------------------------------------------------------
(* C14: read_config_file returns valid = false and raises nothing for a path *)
(* that does not exist, raises InvalidJSONError for an existing file within  *)
(* the size ceiling whose content does not parse as JSON, and returns        *)
(* valid = true with the parsed data for a parseable file within the ceiling.*)
C14_ReadOutcomes ==
    \A p \in HostPaths :
        \A r \in {read_config_file(fs, p)} :
            /\ fs[Dest(p)].kind = "absent" => (r.exc = NoExc /\ ~r.valid)
            /\ (fs[Dest(p)].kind \notin {"absent", "json"} /\ fs[Dest(p)].size <= MAX_CONFIG_SIZE)
                  => r.exc = "InvalidJSONError"
            /\ (fs[Dest(p)].kind = "json" /\ fs[Dest(p)].size <= MAX_CONFIG_SIZE)
                  => (r.exc = NoExc /\ r.valid /\ r.data = fs[Dest(p)].val)

-----------------------------------------------------------------------------
\* the candidate the loop of execute_install has just gone through
LastAttempted == get_config_candidates[idx - 1]

(* C15: the read of the candidate install has just gone through raised       *)
(* FileSizeError exactly when its file was larger than 1,048,576 bytes: at   *)
(* 1,048,577 bytes it does, at 1,048,576 bytes it does not.                  *)
C15_SizeGuard ==
    (op = "install" /\ idx > 1 /\ pc \in {"install", "install_end", "raised"}) =>
        (raised = "FileSizeError" <=> fs0[Dest(LastAttempted)].size > 1048576)

\* an install has merged into a file of exactly 1,048,576 bytes and then
\* refused a file of 1,048,577 bytes
C15_Witness ==
    /\ op = "install" /\ pc = "raised" /\ raised = "FileSizeError"
    /\ fs0[Dest(LastAttempted)].size = 1048577
    /\ \E p \in UpdatedPaths(result) : fs0[Dest(p)].size = 1048576

-----------------------------------------------------------------------------
(* C16: every client an install (not a dry run) reports in `updated` has a   *)
(* config file that holds the service entry under mcpServers, and its isNew  *)
(* is true exactly when the file did not exist before the install.           *)
C16_IsNewIffAbsent ==
    (op = "install" /\ ~options.dryRun) =>
        \A i \in DOMAIN result.updated :
            /\ HoldsEntry(fs[Dest(result.updated[i].path)])
            /\ result.updated[i].isNew <=> fs0[Dest(result.updated[i].path)].kind = "absent"

-----------------------------------------------------------------------------
(* Diagnosis alone, on a host where one file client and one legacy path     *)
(* hold any file.                                                           *)

\* the files a config path may hold
DoctorFiles == RichFiles \cup {PaddedFile(InstalledDoc, MAX_CONFIG_SIZE + 1)}

\* the files a legacy path may hold: broken ones, documents with and without
\* the entry, with an empty entry, with a null mcpServers, and a list
LegacyFiles ==
    CoarseFiles
    \cup {UserFile(JDict(<<Item(MCP_SERVERS, JDict(<<Item(GASOLINE, JDict(<<>>))>>))>>)),
          UserFile(JDict(<<Item(MCP_SERVERS, JNull)>>)),
          UserFile(JList)}

InitDoctor ==
    /\ InitCommon
    /\ cliOnPath \in BOOLEAN
    /\ budget = 1
    /\ unwritable = {}
    /\ \E focus \in HostConfigPaths, legacy \in HostLegacyPaths,
          file \in DoctorFiles, old \in LegacyFiles, extra \in {{}, HostDetectDirs} :
          /\ fs = [k \in FsDomain |-> IF k = Dest(focus) THEN file
                                      ELSE IF k = Dest(legacy) THEN old
                                      ELSE Absent]
          /\ dirs = (IF file.kind # "absent" THEN {DetectDirOf(focus)} ELSE {}) \cup extra
    /\ fs0 = fs
    /\ dirs0 = dirs
    /\ fsPrev = fs

NextDoctor == RunDiagnostics

SpecDoctor == InitDoctor /\ [][NextDoctor]_vars

-----------------------------------------------------------------------------
(* Path resolution alone: get_client_config_path and get_client_detect_dir  *)
(* of a registry definition, on any host platform, for any platform         *)
(* argument.                                                                *)

\* values of sys.platform, one of them unknown to the registry
SysPlatforms == {"darwin", "linux", "linux2", "win32", "freebsd13"}

\* the platform argument: None (the current platform) or a key
PlatformArgs == {None, "darwin", "linux", "win32", "freebsd13"}

InitResolve ==
    /\ sysPlatform \in SysPlatforms
    /\ pc = "idle"
    /\ op = "none"
    /\ options = NoOptions
    /\ clients = <<>>
    /\ idx = 1
    /\ found_existing = FALSE
    /\ result = EmptyResult
    /\ raised = NoExc
    /\ calls = <<>>
    /\ prev = NoPrev
    /\ writing = NoWriting
    /\ cliOnPath = FALSE
    /\ budget = 1
    /\ unwritable = {}
    /\ fs = [k \in FsDomain |-> Absent]
    /\ dirs = {}
    /\ fs0 = fs
    /\ dirs0 = dirs
    /\ fsPrev = fs

\* get_client_config_path(definition, platform) and
\* get_client_detect_dir(definition, platform)
ResolvePaths ==
    /\ CanStart
    /\ \E i \in DOMAIN CLIENT_DEFINITIONS, plat \in PlatformArgs :
          /\ Begin("resolve", [definition |-> CLIENT_DEFINITIONS[i], platform |-> plat])
          /\ result' = [config_path |-> get_client_config_path(CLIENT_DEFINITIONS[i], plat),
                        detect_dir |-> get_client_detect_dir(CLIENT_DEFINITIONS[i], plat)]
    /\ clients' = <<>>
    /\ pc' = "done"
    /\ UNCHANGED <<fs, dirs, env, writing>>

NextResolve == ResolvePaths

SpecResolve == InitResolve /\ [][NextResolve]_vars

-----------------------------------------------------------------------------
(* Validation.  validate_mcp_config is a public function of config.py; a     *)
(* caller hands it any parsed document.                                      *)

\* the values a caller may pass: the documents of the initial files and null
ValidateInputs == Documents \cup {JNull}

\* validate_mcp_config(data), called on a parsed document
ValidateConfig ==
    /\ CanStart
    /\ \E d \in ValidateInputs :
          /\ Begin("validate", [data |-> d])
          /\ result' = validate_mcp_config(d)
    /\ clients' = <<>>
    /\ pc' = "done"
    /\ UNCHANGED <<fs, dirs, env, writing>>

NextValidate == ValidateConfig

\* one call on a host where one file client holds any document
InitValidate ==
    /\ InitCommon
    /\ cliOnPath = FALSE
    /\ budget = 1
    /\ \E focus \in HostConfigPaths, file \in RichFiles :
          InitWorld([p \in HostConfigPaths |-> IF p = focus THEN file ELSE Absent], HostDetectDirs)
    /\ unwritable = {}

SpecValidate == InitValidate /\ [][NextValidate]_vars

-----------------------------------------------------------------------------
\* the service entry an install with the running options is to leave: E, with
\* env = V when V is not empty
ExpectedEntry ==
    IF options.envVars # JDict(<<>>)
    THEN JDict(<<Item("command", JStr("gasoline-mcp")), Item("args", JList),
                 Item("env", options.envVars)>>)
    ELSE JDict(<<Item("command", JStr("gasoline-mcp")), Item("args", JList)>>)

(* C17: every document an install (not a dry run) has merged into and        *)
(* written has an mcpServers object whose service key holds exactly the      *)
(* entry E, with env = V when V is not empty and without env when V is       *)
(* empty, whatever was under the service key before.                         *)
C17_EntryOverwritten ==
    (op = "install" /\ ~options.dryRun) =>
        \A p \in UpdatedPaths(result) \cap HostConfigPaths :
            /\ ReadableObject(fs[Dest(p)])
            /\ DictHas(fs[Dest(p)].val, MCP_SERVERS)
            /\ IsDict(DictGet(fs[Dest(p)].val, MCP_SERVERS))
            /\ DictHas(DictGet(fs[Dest(p)].val, MCP_SERVERS), GASOLINE)
            /\ DictGet(DictGet(fs[Dest(p)].val, MCP_SERVERS), GASOLINE) = ExpectedEntry

\* an install without env vars has replaced an older entry that had an env
C17_Witness ==
    /\ op = "install" /\ ~options.dryRun /\ pc = "done"
    /\ options.envVars = JDict(<<>>)
    /\ \E p \in UpdatedPaths(result) \cap HostConfigPaths :
          /\ HoldsEntry(fs0[Dest(p)])
          /\ DictHas(DictGet(ServersOf(fs0[Dest(p)].val), GASOLINE), "env")
          /\ ~DictHas(DictGet(ServersOf(fs[Dest(p)].val), GASOLINE), "env")

-----------------------------------------------------------------------------
\* the validated document is an object whose mcpServers is an object
ServersObject(d) == IsDict(d) /\ DictHas(d, MCP_SERVERS) /\ IsDict(DictGet(d, MCP_SERVERS))

(* C18, as stated: validate_mcp_config returns an empty list exactly for the *)
(* objects whose mcpServers is absent or an object.                          *)
C18_ValidWhenServersAbsent ==
    op = "validate" =>
        (result = <<>> <=>
            /\ IsDict(options.data)
            /\ ~DictHas(options.data, MCP_SERVERS) \/ IsDict(DictGet(options.data, MCP_SERVERS)))

(* C18, amended: validate_mcp_config returns an empty list exactly for the   *)
(* objects whose mcpServers is present and an object; a non-object document, *)
(* a missing mcpServers and a non-object mcpServers each give an error.      *)
C18_ValidIffServersObject ==
    op = "validate" => (result = <<>> <=> ServersObject(options.data))

\* an object without mcpServers has been validated and an error returned
C18_Witness ==
    /\ op = "validate" /\ pc = "done"
    /\ IsDict(options.data) /\ ~DictHas(options.data, MCP_SERVERS)
    /\ result # <<>>

-----------------------------------------------------------------------------
\* the success flag of a returned result says that its list of successes is not empty
FlagMatches(successes) == result.success <=> successes # <<>>

(* C19: the success flag returned by execute_install (execute_uninstall) is  *)
(* true exactly when the updated (removed) list of the invocation is not     *)
(* empty; it is false when there is no client to act on and when every       *)
(* client errored or was not configured.                                     *)
C19_SuccessIffAnySucceeded ==
    /\ (op = "install" /\ pc = "done") =>
          /\ FlagMatches(result.updated)
          /\ DetectedAtStart = {} => ~result.success
    /\ (op = "uninstall" /\ pc = "done") =>
          /\ FlagMatches(result.removed)
          /\ clients = <<>> => ~result.success

-----------------------------------------------------------------------------
\* the file is missing or holds a document read_config_file returns as an object
MissingOrReadable(file) == file.kind = "absent" \/ ReadableObject(file)

\* the service key is present under the mcpServers object of the file
KeyPresent(file) ==
    /\ ReadableObject(file)
    /\ IsDict(ServersOf(file.val))
    /\ DictHas(ServersOf(file.val), GASOLINE)

NotConfiguredNames == {result.notConfigured[i] : i \in DOMAIN result.notConfigured}

\* the file clients the running uninstall has gone through whose config file
\* was missing or readable when it started
ProcessedReadable ==
    {d \in Processed : /\ d.type = "file"
                       /\ get_client_config_path(d, None) # None
                       /\ MissingOrReadable(fs0[Dest(get_client_config_path(d, None))])}

(* C20: for a file client whose config file is missing or readable,          *)
(* uninstall reports notConfigured exactly when the service key is absent    *)
(* under mcpServers, and then leaves the file as it was; when the key is     *)
(* present, an uninstall that is no dry run reports removed and the key is   *)
(* no longer in the file.                                                    *)
C20_NotConfiguredIffKeyAbsent ==
    op = "uninstall" =>
        \A d \in ProcessedReadable :
            \A p \in {get_client_config_path(d, None)} :
                /\ d.name \in NotConfiguredNames <=> ~KeyPresent(fs0[Dest(p)])
                /\ ~KeyPresent(fs0[Dest(p)]) =>
                      fs[Dest(p)] = fs0[Dest(p)] /\ fs[Temp(p)] = fs0[Temp(p)]
                /\ (KeyPresent(fs0[Dest(p)]) /\ ~options.dryRun) =>
                      d.id \in RemovedIds(result) /\ ~KeyPresent(fs[Dest(p)])

-----------------------------------------------------------------------------
\* the runs of the removal command of a client by the running operation
RemovalRuns(d) ==
    {i \in DOMAIN calls : /\ calls[i].fn = "subprocess.run"
                          /\ calls[i].by = "_uninstall_via_cli"
                          /\ calls[i].path = Dest(d.detectCommand)}

ErrorNames(res) == {res.errors[i].name : i \in DOMAIN res.errors}

(* C21: an uninstall that is no dry run runs the removal command of a        *)
(* command-line client once; exit 0 gives removed, a nonzero exit with "not  *)
(* found" or "does not exist" on stderr gives notConfigured and no error,    *)
(* any other nonzero exit, a launch failure or a timeout gives an error for  *)
(* that client, and the command is not run again.                            *)
C21_CliRemovalOnce ==
    (op = "uninstall" /\ ~options.dryRun) =>
        \A d \in {c \in Processed : c.type = "cli"} :
            /\ Cardinality(RemovalRuns(d)) = 1
            /\ \A i \in RemovalRuns(d) :
                  /\ d.id \in RemovedIds(result) <=> calls[i].ret = "exit0"
                  /\ d.name \in NotConfiguredNames <=> calls[i].ret = "not_found"
                  /\ d.name \in ErrorNames(result)
                        <=> calls[i].ret \in {"failed", "timeout", "launch_failed"}

\* the removal command of a client timed out and the uninstall has returned
C21_Witness ==
    /\ op = "uninstall" /\ ~options.dryRun /\ pc = "done"
    /\ \E d \in {c \in Processed : c.type = "cli"} :
          /\ d.name \in ErrorNames(result)
          /\ \E i \in RemovalRuns(d) : calls[i].ret = "timeout"

-----------------------------------------------------------------------------
\* in how many of the three lists of the result the client is
ListsHolding(d) ==
    Cardinality({l \in {"removed", "notConfigured", "errors"} :
        \/ l = "removed" /\ d.id \in RemovedIds(result)
        \/ l = "notConfigured" /\ d.name \in NotConfiguredNames
        \/ l = "errors" /\ d.name \in ErrorNames(result)})

\* the config file of the client could not be read when the operation started
UnreadableAtStart(d) ==
    /\ d.type = "file"
    /\ get_client_config_path(d, None) # None
    /\ Unreadable(fs0[Dest(get_client_config_path(d, None))])

(* C22: execute_uninstall goes through every client of its list and puts     *)
(* each in exactly one of removed, notConfigured and errors; a client whose  *)
(* config file is malformed or too large, or cannot be written, is recorded  *)
(* as an error and the clients after it are still processed.                 *)
C22_UninstallIsolatesFailures ==
    (op = "uninstall" /\ pc \in {"done", "raised"}) =>
        /\ pc = "done"
        /\ \A i \in DOMAIN clients :
              /\ clients[i] \in Processed
              /\ ListsHolding(clients[i]) = 1
              /\ UnreadableAtStart(clients[i]) => clients[i].name \in ErrorNames(result)

-----------------------------------------------------------------------------
\* the report of the running diagnosis has an entry of the status for the client
Reported(id, status) ==
    \E i \in DOMAIN result.tools : result.tools[i].id = id /\ result.tools[i].status = status

(* C23: run_diagnostics is read-only: the files, their contents and the      *)
(* directories are after a diagnosis what they were before it, and the       *)
(* diagnosis calls no primitive that writes or deletes a file.               *)
C23_DiagnoseReadOnly ==
    op = "doctor" =>
        /\ fs = fs0
        /\ dirs = dirs0
        /\ \A i \in DOMAIN calls : calls[i].fn \notin FileMutators

\* a diagnosis has reported a detected client whose config file is missing
C23_Witness ==
    /\ op = "doctor" /\ pc = "done"
    /\ \E d \in DetectedAtStart :
          /\ d.type = "file"
          /\ get_client_config_path(d, None) # None
          /\ ~Exists(fs, get_client_config_path(d, None))
          /\ Reported(d.id, "error")

-----------------------------------------------------------------------------
FileClients == {CLIENT_DEFINITIONS[i] : i \in {j \in DOMAIN CLIENT_DEFINITIONS :
                                                 CLIENT_DEFINITIONS[j].type = "file"}}

\* the status the diagnosis is to report for a file client
ExpectedStatus(d) ==
    IF d \notin DetectedAtStart \/ get_client_config_path(d, None) = None THEN "info"
    ELSE IF HoldsEntry(fs0[Dest(get_client_config_path(d, None))]) THEN "ok"
    ELSE "error"

(* C24: a diagnosis returns a report, never an exception, and the report     *)
(* says of every file client: info when it is not detected or has no config  *)
(* path on the platform; error, with a suggestion, when its config file is   *)
(* missing, unreadable, not valid JSON or without the service entry; ok      *)
(* otherwise.                                                                *)
C24_DiagnoseFileClients ==
    op = "doctor" =>
        /\ pc = "done"
        /\ \A d \in FileClients :
              \E i \in DOMAIN result.tools :
                  /\ result.tools[i].id = d.id
                  /\ result.tools[i].status = ExpectedStatus(d)
                  /\ result.tools[i].status = "error" => result.tools[i].suggestion # None

-----------------------------------------------------------------------------
LegacyWarned == {result.legacyWarnings[i] : i \in DOMAIN result.legacyWarnings}

\* a config file the diagnosis of the file clients cannot get through
BrokenConfigAtStart ==
    \E p \in HostConfigPaths : Exists(fs0, p) /\ ~HasServers(fs0[Dest(p)])

(* C25: a returned diagnosis warns of a legacy path exactly when the path    *)
(* exists, parses as JSON within the size limit and holds the service entry  *)
(* under mcpServers; a missing, unreadable, oversized or malformed legacy    *)
(* file gives no warning and never makes the diagnosis fail: when a          *)
(* diagnosis raises, a client's config file is the cause.                    *)
C25_LegacyWarnings ==
    op = "doctor" =>
        /\ pc = "done" => LegacyWarned = {p \in HostLegacyPaths : HoldsEntry(fs0[Dest(p)])}
        /\ pc = "raised" => BrokenConfigAtStart

\* a diagnosis has returned on a host with a legacy file that holds the entry
\* and has warned of it
C25_Witness ==
    /\ op = "doctor" /\ pc = "done"
    /\ \E p \in HostLegacyPaths : HoldsEntry(fs0[Dest(p)]) /\ p \in LegacyWarned

-----------------------------------------------------------------------------
\* the platform key a resolution uses: the argument, or the key of the host
ResolvedKey ==
    IF options.platform # None THEN options.platform
    ELSE IF sysPlatform \in {"linux", "linux2"} THEN "linux"
    ELSE sysPlatform

\* the template of a table for the key, else the wildcard, else None
TemplateOf(table) ==
    IF ResolvedKey \in DOMAIN table THEN table[ResolvedKey]
    ELSE IF "all" \in DOMAIN table THEN table["all"]
    ELSE None

Expansion(template) == IF template = None THEN None ELSE expand_path(template)

(* C26: get_client_config_path and get_client_detect_dir return None for a   *)
(* command-line definition; for a file definition they return the expansion  *)
(* of the template of the given (or current) platform key, else of the `all` *)
(* template, else None.                                                      *)
C26_PathResolution ==
    op = "resolve" =>
        IF options.definition.type = "cli"
        THEN result.config_path = None /\ result.detect_dir = None
        ELSE /\ result.config_path = Expansion(TemplateOf(options.definition.configPath))
             /\ result.detect_dir = Expansion(TemplateOf(options.definition.detectDir))

\* a definition with only the `all` template has been resolved for an explicit key
C26_Witness ==
    /\ op = "resolve" /\ pc = "done"
    /\ options.definition.type = "file"
    /\ options.platform = "linux"
    /\ DOMAIN options.definition.configPath = {"all"}
    /\ result.config_path = "/home/u/.cursor/mcp.json"

-----------------------------------------------------------------------------
\* the command-line clients detected when the running operation started
CliDetectedAtStart == {d \in DetectedAtStart : d.type = "cli"}

UpdatedNames(res) == {res.updated[i].name : i \in DOMAIN res.updated}

(* C27: a dry run of install or uninstall reports a command-line client as   *)
(* installed or removed, with method cli and the command that would run,     *)
(* and runs no external command.                                             *)
C27_CliDryRun ==
    (op \in {"install", "uninstall"} /\ options.dryRun) =>
        /\ \A i \in DOMAIN calls : calls[i].fn # "subprocess.run"
        /\ (op = "uninstall" /\ pc = "done") =>
              \A d \in {c \in Processed : c.type = "cli"} :
                  \E i \in DOMAIN result.removed :
                      /\ result.removed[i].id = d.id
                      /\ result.removed[i].method = "cli"
        /\ (op = "install" /\ pc = "done") =>
              \A d \in CliDetectedAtStart : d.name \in UpdatedNames(result)

-----------------------------------------------------------------------------
\* the top-level keys of a document file other than mcpServers
OtherTopKeys(file) == DictKeys(file.val) \ {MCP_SERVERS}

\* every top-level key of `before` other than mcpServers is in `after` with its value
TopLevelKept(before, after) ==
    \A k \in OtherTopKeys(before) :
        /\ ReadableObject(after)
        /\ DictHas(after.val, k)
        /\ DictGet(after.val, k) = DictGet(before.val, k)

\* the config paths of the file clients a running uninstall (not a dry run)
\* has removed the entry from
RemovedFrom ==
    IF op = "uninstall" /\ ~options.dryRun
    THEN {p \in RemovedPaths(result) \cap HostConfigPaths : HoldsEntry(fs0[Dest(p)])}
    ELSE {}

(* C28 as stated: an uninstall (not a dry run) of a file client keeps every   *)
(* top-level key other than mcpServers on disk with its value, also when the *)
(* service entry was the only server entry.                                  *)
C28_TopLevelKeysKept ==
    \A p \in RemovedFrom : TopLevelKept(fs0[Dest(p)], fs[Dest(p)])

(* C28 amended: the top-level keys other than mcpServers are kept with their *)
(* values when another server entry remains; when the service entry was the  *)
(* only server entry the whole file is deleted, its other keys included.     *)
C28_TopLevelKeysKeptWithSiblings ==
    \A p \in RemovedFrom :
        IF SiblingKeys(fs0[Dest(p)]) # {}
        THEN TopLevelKept(fs0[Dest(p)], fs[Dest(p)])
        ELSE fs[Dest(p)].kind = "absent"

\* an uninstall has rewritten a file that held another top-level key and a
\* sibling entry
C28_Witness ==
    \E p \in RemovedFrom :
        /\ OtherTopKeys(fs0[Dest(p)]) # {}
        /\ SiblingKeys(fs0[Dest(p)]) # {}
        /\ fs[Dest(p)].kind = "json"

-----------------------------------------------------------------------------
\* read_config_file returned the file of the path as valid when the operation started
ReadAsValid(p) == fs0[Dest(p)].kind = "json" /\ fs0[Dest(p)].size <= MAX_CONFIG_SIZE

\* the position of a path among the candidates
CandidateIndex(p) == CHOOSE i \in DOMAIN get_config_candidates : get_config_candidates[i] = p

\* the calls of write_config_file made by the loop of execute_install
LoopWrites ==
    {i \in DOMAIN calls : calls[i].fn = "write_config_file" /\ calls[i].by = "_install_candidate"}

\* the fallback install has run
FallbackRan == \E i \in DOMAIN calls : calls[i].by = "_install_default_candidate"

-----------------------------------------------------------------------------
\* the operation before the running one was an uninstall that returned and
\* was no dry run
AfterUninstall == prev.op = "uninstall" /\ prev.pc = "done" /\ ~prev.options.dryRun

\* the file clients the previous operation reported as installed / as removed
InstalledBefore ==
    {d \in FileClients : /\ get_client_config_path(d, None) # None
                         /\ get_client_config_path(d, None) \in UpdatedPaths(prev.result)}
RemovedBefore ==
    {d \in FileClients : /\ get_client_config_path(d, None) # None
                         /\ get_client_config_path(d, None) \in RemovedPaths(prev.result)}

\* the file clients, detected now, that the running operation reported as
\* installed / as removed
InstalledNow ==
    {d \in FileClients : /\ get_client_config_path(d, None) # None
                         /\ get_client_config_path(d, None) \in UpdatedPaths(result)
                         /\ is_client_installed(d)}
RemovedNow ==
    {d \in FileClients : /\ get_client_config_path(d, None) # None
                         /\ get_client_config_path(d, None) \in RemovedPaths(result)
                         /\ is_client_installed(d)}

====
